---- MODULE Spec2Model ----
(***************************************************************************)
(* A model of the form builder backend: the stored forms and submissions   *)
(* (MongoDB collections behind the mongoose models Form and Submission),   *)
(* and the request handlers of FormController and SubmissionController.    *)
(* Every await of a handler is a point where other requests may run, so a  *)
(* handler is one action per database operation it awaits; the synchronous *)
(* code between two awaits belongs to the action of the earlier await.     *)
(*                                                                         *)
(* Strings are sequences of tokens.  A token is either a single ordinary   *)
(* character ("x", "@", ".", " ", "0") or one of the lexemes the           *)
(* sanitizers' regular expressions look for ("<script>", "</script>",      *)
(* "javascript:", "java", "script:", "onx=").                              *)
(***************************************************************************)
EXTENDS Integers, Sequences, FiniteSets, TLC

(***************************************************************************)
(* Bounds of the model.                                                    *)
(***************************************************************************)
MaxForms == 2
NumSubmitters == 3
NumDeleters == 2
MaxLimit == 1
MaxBodyCount == 1

FormIds == 1..MaxForms
Submitters == 1..NumSubmitters
Deleters == 1..NumDeleters

(***************************************************************************)
(* JSON values of a submission payload.                                    *)
(***************************************************************************)
Undefined == [t |-> "undef", s |-> <<>>, n |-> 0, a |-> <<>>]
Str(s) == [t |-> "str", s |-> s, n |-> 0, a |-> <<>>]
Num(n) == [t |-> "num", s |-> <<>>, n |-> n, a |-> <<>>]
Arr(a) == [t |-> "arr", s |-> <<>>, n |-> 0, a |-> a]

Get(data, k) == IF k \in DOMAIN data THEN data[k] ELSE Undefined

\* JavaScript truthiness: !value
Falsy(v) ==
  \/ v.t = "undef"
  \/ v.t = "str" /\ v.s = <<>>
  \/ v.t = "num" /\ v.n = 0

\* the length in characters of one token
TokLen(tok) ==
  CASE tok = "<script>" -> 8
    [] tok = "</script>" -> 9
    [] tok = "javascript:" -> 11
    [] tok = "java" -> 4
    [] tok = "script:" -> 7
    [] tok = "onx=" -> 4
    [] OTHER -> 1

RECURSIVE StrLength(_)
StrLength(s) == IF s = <<>> THEN 0 ELSE TokLen(Head(s)) + StrLength(Tail(s))

RECURSIVE Join(_, _)
Join(a, sep) ==
  IF a = <<>> THEN <<>>
  ELSE IF Len(a) = 1 THEN a[1]
  ELSE a[1] \o sep \o Join(Tail(a), sep)

\* String(value), the coercion RegExp.prototype.test applies to its argument
StringOf(v) ==
  CASE v.t = "str" -> v.s
    [] v.t = "num" -> <<"0">>
    [] v.t = "arr" -> Join(v.a, <<",">>)
    [] OTHER -> <<"x">>

(***************************************************************************)
(* The sanitizers.                                                         *)
(***************************************************************************)
FirstIndex(s, from, tok) ==
  LET I == {i \in from..Len(s) : s[i] = tok}
  IN IF I = {} THEN 0 ELSE CHOOSE i \in I : \A j \in I : i <= j

\* .replace(/<script\b[^<]*(?:(?!<\/script>)<[^<]*)*<\/script>/gi, '')
RECURSIVE RemoveScript(_)
RemoveScript(s) ==
  LET i == FirstIndex(s, 1, "<script>")
      j == IF i = 0 THEN 0 ELSE FirstIndex(s, i + 1, "</script>")
  IN IF j = 0 THEN s
     ELSE SubSeq(s, 1, i - 1) \o RemoveScript(SubSeq(s, j + 1, Len(s)))

\* .replace(/javascript:/gi, '')
RECURSIVE RemoveJs(_)
RemoveJs(s) ==
  IF s = <<>> THEN <<>>
  ELSE IF Head(s) = "javascript:" THEN RemoveJs(Tail(s))
  ELSE IF Len(s) >= 2 /\ s[1] = "java" /\ s[2] = "script:"
       THEN RemoveJs(SubSeq(s, 3, Len(s)))
  ELSE <<Head(s)>> \o RemoveJs(Tail(s))

\* .replace(/on\w+\s*=/gi, '')
RemoveOn(s) == SelectSeq(s, LAMBDA tok : tok # "onx=")

\* .trim()
RECURSIVE Trim(_)
Trim(s) ==
  IF s = <<>> THEN s
  ELSE IF Head(s) = " " THEN Trim(Tail(s))
  ELSE IF s[Len(s)] = " " THEN Trim(SubSeq(s, 1, Len(s) - 1))
  ELSE s

\* sanitizeInput.sanitizeString
sanitizeString(s) == Trim(RemoveOn(RemoveJs(RemoveScript(s))))

\* sanitizeInput.sanitizeObject applied to one value of the body
sanitizeInputValue(v) ==
  CASE v.t = "str" -> Str(sanitizeString(v.s))
    [] v.t = "arr" -> Arr([i \in 1..Len(v.a) |-> sanitizeString(v.a[i])])
    [] OTHER -> v

\* sanitizeInput applied to req.body.data
sanitizeInput(data) == [k \in DOMAIN data |-> sanitizeInputValue(data[k])]

\* Submission.js sanitizeObject, run by the pre('save') hook of Submission
sanitizeObject(obj) ==
  [k \in DOMAIN obj |->
     CASE obj[k].t = "str" -> Str(RemoveJs(RemoveScript(obj[k].s)))
       [] obj[k].t = "arr" ->
            Arr([i \in 1..Len(obj[k].a) |-> RemoveScript(obj[k].a[i])])
       [] OTHER -> obj[k]]

(***************************************************************************)
(* The sanitizers on nested JSON values. A value is a string, another      *)
(* scalar, an array of values or an object: keys and kids are the entries  *)
(* of an object in the order of Object.entries, kids the items of an array.*)
(***************************************************************************)
Tree(t, s, keys, kids) == [t |-> t, s |-> s, keys |-> keys, kids |-> kids]
TStr(s) == Tree("str", s, <<>>, <<>>)
TNum == Tree("num", <<>>, <<>>, <<>>)
TArr(kids) == Tree("arr", <<>>, <<>>, kids)
TObj(keys, kids) == Tree("obj", <<>>, keys, kids)

\* validation.js sanitizeInput.sanitizeObject: strings are rewritten, arrays
\* are mapped, the entries of objects are rewritten, at every depth
RECURSIVE sanitizeInputObject(_)
sanitizeInputObject(obj) ==
  CASE obj.t = "str" -> TStr(sanitizeString(obj.s))
    [] obj.t \in {"arr", "obj"} ->
         [obj EXCEPT !.kids =
            [i \in 1..Len(obj.kids) |-> sanitizeInputObject(obj.kids[i])]]
    [] OTHER -> obj

\* Submission.js sanitizeObject on the entries of this.data: a string loses
\* script blocks and javascript:, the string items of an array lose script
\* blocks, every other value is copied
sanitizeDataValue(value) ==
  CASE value.t = "str" -> TStr(RemoveJs(RemoveScript(value.s)))
    [] value.t = "arr" ->
         [value EXCEPT !.kids =
            [i \in 1..Len(value.kids) |->
               IF value.kids[i].t = "str"
               THEN TStr(RemoveScript(value.kids[i].s))
               ELSE value.kids[i]]]
    [] OTHER -> value

sanitizeData(obj) ==
  [obj EXCEPT !.kids =
     [i \in 1..Len(obj.kids) |-> sanitizeDataValue(obj.kids[i])]]

\* the validators' sanitizeHtml(text)
sanitizeHtml(text) ==
  IF text.t # "str" THEN text ELSE TStr(sanitizeString(text.s))

\* the three sanitizers by name
Sanitizers == {"sanitizeInput", "sanitizeObject", "sanitizeHtml"}

Sanitize(by, x) ==
  CASE by = "sanitizeInput" -> sanitizeInputObject(x)
    [] by = "sanitizeObject" -> sanitizeData(x)
    [] OTHER -> sanitizeHtml(x)

\* the values a sanitizer is called with: sanitizeObject is called with
\* this.data, an object
Accepts(by, x) == by = "sanitizeObject" => x.t = "obj"

(***************************************************************************)
(* Fields of a form, and the checks submitForm applies to a payload.       *)
(***************************************************************************)
Field(id, type, label, required, options, minLength, maxLength, pattern) ==
  [id |-> id, type |-> type, label |-> label, required |-> required,
   options |-> options,
   validation |-> [minLength |-> minLength, maxLength |-> maxLength,
                   pattern |-> pattern]]

\* /^[^\s@]+@[^\s@]+\.[^\s@]+$/.test(value)
emailRegex(s) ==
  /\ \A i \in 1..Len(s) : s[i] # " "
  /\ Cardinality({i \in 1..Len(s) : s[i] = "@"}) = 1
  /\ LET at == FirstIndex(s, 1, "@")
     IN /\ at > 1
        /\ \E j \in (at + 2)..(Len(s) - 1) : s[j] = "."

\* the patterns a field's validation.pattern is drawn from: "" is no
\* pattern, "^x+$" accepts one or more "x", "(" is not a regular expression
RegExpValid(pattern) == pattern # "("

RegExpTest(pattern, s) ==
  CASE pattern = "^x+$" -> s # <<>> /\ \A i \in 1..Len(s) : s[i] = "x"
    [] OTHER -> TRUE

\* field.options.includes(value)
Includes(options, v) ==
  v.t = "str" /\ \E i \in 1..Len(options) : options[i] = v.s

\* a first loop that stops at the first required field without a value
MissingFieldsFirst(fields, data) ==
  LET miss == SelectSeq(fields,
                LAMBDA f : f.required /\ Falsy(Get(data, f.id)))
  IN IF miss = <<>> THEN <<>> ELSE <<miss[1].label>>

\* submitForm lines 44-50: the labels of the required fields without a value
MissingFields(fields, data) ==
  LET miss == SelectSeq(fields,
                LAMBDA f : f.required /\ Falsy(Get(data, f.id)))
  IN [i \in 1..Len(miss) |-> miss[i].label]

\* submitForm line 64: the second loop skips the field
Skipped(value) == Falsy(value) /\ ~(value.t = "num" /\ value.n = 0)

\* submitForm lines 66-89: the error of the switch on field.type
TypeErrors(field, value) ==
  CASE field.type = "email" ->
         IF emailRegex(StringOf(value)) THEN <<>>
         ELSE <<[label |-> field.label, kind |-> "email"]>>
    [] field.type \in {"select", "radio"} ->
         IF Includes(field.options, value) THEN <<>>
         ELSE <<[label |-> field.label, kind |-> "option"]>>
    [] field.type = "checkbox" ->
         IF value.t = "arr"
            /\ \E i \in 1..Len(value.a) :
                 ~Includes(field.options, Str(value.a[i]))
         THEN <<[label |-> field.label, kind |-> "options"]>>
         ELSE <<>>
    [] OTHER -> <<>>

\* submitForm line 102: new RegExp(pattern) throws a SyntaxError
PatternThrows(field, value) ==
  /\ ~Skipped(value)
  /\ value.t = "str"
  /\ field.validation.pattern # ""
  /\ ~RegExpValid(field.validation.pattern)

\* submitForm lines 91-106: the errors of the field's validation rules
RuleErrors(field, value) ==
  LET v == field.validation
  IN IF value.t # "str" THEN <<>>
     ELSE (IF v.minLength # 0 /\ StrLength(value.s) < v.minLength
           THEN <<[label |-> field.label, kind |-> "minLength"]>>
           ELSE <<>>)
          \o (IF v.maxLength # 0 /\ StrLength(value.s) > v.maxLength
              THEN <<[label |-> field.label, kind |-> "maxLength"]>>
              ELSE <<>>)
          \o (IF v.pattern # "" /\ RegExpValid(v.pattern)
                 /\ ~RegExpTest(v.pattern, value.s)
              THEN <<[label |-> field.label, kind |-> "pattern"]>>
              ELSE <<>>)

\* submitForm lines 61-107: validationErrors after the second loop
RECURSIVE ValidationErrors(_, _)
ValidationErrors(fields, data) ==
  IF fields = <<>> THEN <<>>
  ELSE LET field == Head(fields)
           value == Get(data, field.id)
       IN (IF Skipped(value) THEN <<>>
           ELSE TypeErrors(field, value) \o RuleErrors(field, value))
          \o ValidationErrors(Tail(fields), data)

\* the second loop throws at some field
ValidationThrows(fields, data) ==
  \E i \in 1..Len(fields) : PatternThrows(fields[i], Get(data, fields[i].id))

\* routes/forms.js line 25 and the enum of fieldSchema.type
FIELD_TYPES ==
  {"text", "email", "textarea", "select", "radio", "checkbox", "file"}

\* the message of the Error the pre('save') hook of Form passes on
DuplicateIdMessage == "Field IDs must be unique within a form"

\* Form.js pre('save'): the field ids of the document are pairwise distinct
UniqueFieldIds(fields) ==
  Cardinality({fields[i].id : i \in 1..Len(fields)}) = Len(fields)

\* Submission schema validation on save: every file has its required paths
FilesValid(files) == \A i \in 1..Len(files) : files[i].complete

\* a limit check that takes the default 0 for a limit
LimitReachedNoZero(form) ==
  form.submissionCount >= form.settings.submissionLimit

\* submitForm lines 35-37
LimitReached(form) ==
  form.settings.submissionLimit > 0
    /\ form.submissionCount >= form.settings.submissionLimit

(***************************************************************************)
(* The inputs the requests are drawn from.                                 *)
(***************************************************************************)
fName == Field("a", "text", "A", TRUE, <<>>, 0, 0, "")
fMail == Field("b", "email", "B", FALSE, <<>>, 0, 0, "")
fDup == Field("a", "text", "C", FALSE, <<>>, 0, 0, "")

FieldLists == {<<>>, <<fName, fMail>>, <<fName, fDup>>}

badFile == [fieldId |-> "f", originalName |-> "", complete |-> FALSE]

\* req.body of submitForm: a valid payload, and one without the required
\* field and with a key that is no field id
pValid == [data |-> [k \in {"a"} |-> Str(<<"x">>)], files |-> <<>>]
pMissing == [data |-> [k \in {"zz"} |-> Str(<<"x">>)], files |-> <<>>]

TrafficPayloads == {pValid, pMissing}

\* ... one with a malformed email, and one whose file entry lacks paths the
\* Submission schema requires
Payloads ==
  TrafficPayloads \cup
  { [data |-> [k \in {"a", "b"} |-> Str(<<"x">>)], files |-> <<>>],
    [data |-> [k \in {"a"} |-> Str(<<"x">>)], files |-> <<badFile>>] }

Keep == -1

\* req.body of createForm: fields, settings.submissionLimit, and the paths
\* status and submissionCount, which no validator removes from the body
CreateBodies ==
  [fields : FieldLists, submissionLimit : 0..MaxLimit,
   status : {"draft", "published"}, submissionCount : 0..MaxBodyCount]

\* req.body of updateForm: fields is required by the route's validators;
\* settings, status and submissionCount are optional (Keep, "": not sent).
\* A request sends fields alone or fields with one of the optional paths.
UpdateBody(fields, limit, status, count) ==
  [fields |-> fields, submissionLimit |-> limit, status |-> status,
   submissionCount |-> count]

UpdateBodies ==
  {UpdateBody(fl, Keep, st, Keep) :
     fl \in FieldLists, st \in {"", "draft", "published"}}
  \cup {UpdateBody(fl, n, "", Keep) : fl \in FieldLists, n \in 0..MaxLimit}
  \cup {UpdateBody(fl, Keep, "", n) : fl \in FieldLists, n \in 0..MaxBodyCount}

\* fields of the requests that create and update forms with a field list
\* the schema is to judge: a select without options, ids that are not
\* identifiers, a field without an id
fSel == Field("c", "select", "C", FALSE, << <<"x">> >>, 0, 0, "")
fSelEmpty == Field("c", "select", "C", FALSE, <<>>, 0, 0, "")
fBadId == Field("1a", "text", "H", FALSE, <<>>, 0, 0, "")
fNoId == Field("", "text", "I", FALSE, <<>>, 0, 0, "")

SchemaFieldLists ==
  { <<fName>>, <<fName, fSel>>, <<fName, fSelEmpty>>, <<fName, fBadId>>,
    <<fName, fNoId>>, <<fName, fDup>> }

SchemaBodies ==
  [fields : SchemaFieldLists, submissionLimit : 0..MaxLimit,
   status : {"draft"}, submissionCount : {0}]

SchemaUpdateBodies ==
  {UpdateBody(fl, Keep, "", Keep) : fl \in SchemaFieldLists}

\* /^[a-zA-Z][a-zA-Z0-9_]*$/ on the ids the requests draw from
ValidIdentifier(id) == id \notin {"", "1a"}

\* the forms and payloads the validation of submitForm is applied to:
\* fields of every kind of check, with pairwise distinct ids
MaxFields == 2

fChk == Field("d", "checkbox", "D", FALSE, << <<"x">> >>, 0, 0, "")
fPat == Field("e", "text", "E", FALSE, <<>>, 2, 0, "^x+$")
fBadPat == Field("f", "text", "F", FALSE, <<>>, 0, 0, "(")
fReqMail == Field("b", "email", "B", TRUE, <<>>, 0, 0, "")

ValidatorFields == {fName, fReqMail, fSel, fChk, fPat, fBadPat}

ValidatorFieldLists ==
  {fl \in UNION {[1..n -> ValidatorFields] : n \in 1..MaxFields} :
     \A i, j \in 1..Len(fl) : fl[i].id = fl[j].id => i = j}

\* the values of a key of req.body.data
ValidatorValues ==
  { Str(<<>>), Str(<<"x">>), Str(<<"x", "@", "x", ".", "x">>), Num(0),
    Arr(<< <<"x">> >>), Arr(<< <<"y">> >>) }

\* the keys of req.body.data: the ids of the fields and a key of no field
ValidatorKeys == {f.id : f \in ValidatorFields} \cup {"zz"}

\* req.body of submitForm with no key, one key or two keys in data
ValidatorPayloads ==
  {[data |-> d, files |-> <<>>] :
     d \in {[k \in {} |-> Undefined]} \cup
           UNION {[{k1, k2} -> ValidatorValues] :
                     k1 \in ValidatorKeys, k2 \in ValidatorKeys}}

\* the values the sanitizers are called with: strings of up to MaxTokens
\* tokens, as a value of its own, as an item of an array, as the value of
\* a key, inside nested arrays and objects, and below MaxDepth objects
MaxTokens == 3
MaxDepth == 33
MaxPasses == 2

SanitizerTokens ==
  {"x", " ", "<script>", "</script>", "java", "javascript:", "script:",
   "onx="}

SanitizerLeaves ==
  {TNum} \cup
  {TStr(s) : s \in UNION {[1..n -> SanitizerTokens] : n \in 0..MaxTokens}}

RECURSIVE Nest(_, _)
Nest(d, leaf) ==
  IF d = 0 THEN leaf ELSE TObj(<<"a">>, <<Nest(d - 1, leaf)>>)

\* a leaf as a value of its own, as an item of an array, as the value of
\* a key, and inside nested arrays and objects
Shapes == {"leaf", "item", "entry", "entry item", "entry item item",
           "entry entry"}

Wrap(shape, leaf) ==
  CASE shape = "item" -> TArr(<<leaf>>)
    [] shape = "entry" -> TObj(<<"a", "b">>, <<leaf, TNum>>)
    [] shape = "entry item" -> TObj(<<"a">>, <<TArr(<<leaf>>)>>)
    [] shape = "entry item item" ->
         TObj(<<"a">>, <<TArr(<<TArr(<<leaf>>)>>)>>)
    [] shape = "entry entry" -> Nest(2, leaf)
    [] OTHER -> leaf

SanitizerInputs ==
  {Wrap(shape, leaf) : shape \in Shapes, leaf \in SanitizerLeaves}
  \cup {Nest(d, TStr(<<"javascript:", "x">>)) : d \in 3..MaxDepth}

\* the forms and the stored submissions exportSubmissions is asked for:
\* fields of the three kinds of cell, two fields with one label, a field
\* whose label is the header of a fixed column
fFile == Field("h", "file", "H", FALSE, <<>>, 0, 0, "")
fSame == Field("b", "text", "A", FALSE, <<>>, 0, 0, "")
fHead == Field("c", "text", "Submission ID", FALSE, <<>>, 0, 0, "")

ExportFieldLists ==
  { <<>>, <<fName>>, <<fName, fChk>>, <<fName, fFile>>, <<fChk, fFile>>,
    <<fName, fSame>>, <<fHead, fName>> }

goodFile == [fieldId |-> "h", originalName |-> "n", complete |-> TRUE]

ExportData ==
  { [k \in {} |-> Undefined],
    [k \in {"a"} |-> Str(<<"x">>)],
    [k \in {"a"} |-> Num(0)],
    [k \in {"a", "b"} |-> IF k = "a" THEN Str(<<"x">>) ELSE Str(<<"y">>)],
    [k \in {"a", "c"} |-> IF k = "a" THEN Str(<<"x">>) ELSE Str(<<"z">>)],
    [k \in {"a", "d"} |->
       IF k = "a" THEN Str(<<"x">>) ELSE Arr(<< <<"x">>, <<"y">> >>)],
    [k \in {"d"} |-> Arr(<< <<"y">>, <<"x">> >>)],
    [k \in {"d"} |-> Str(<<"x">>)] }

ExportSubmissionDocs ==
  [formId : {1}, data : ExportData, files : {<<>>, <<goodFile>>}]

\* the submissions collection with no, one or two submissions of form 1
ExportStores ==
  UNION {[ids -> ExportSubmissionDocs] : ids \in {{}, {1}, {1, 2}}}

(***************************************************************************)
(* The state.                                                              *)
(***************************************************************************)
VARIABLES
  forms,       \* the forms collection: form id -> document
  nextFormId,  \* the next fresh form id
  subs,        \* the submissions collection: submission id -> document
  spc, sreq, sresp,   \* submitForm requests: position, locals, response
  dpc, dreq,          \* deleteSubmission requests: position, locals
  apc, areq,          \* the form management request: position, locals
  formsCreated,       \* the formsCreated counter of the user of the requests
  cresp,              \* the response of the last createForm request
  sanIn, sanOut,      \* the argument and the result of the last sanitizer call
  sanBy, sanPass,     \* the sanitizer that is called, the number of its calls
  eresp               \* the response of the last exportSubmissions request

vars == <<forms, nextFormId, subs, spc, sreq, sresp, dpc, dreq, apc, areq,
          formsCreated, cresp, sanIn, sanOut, sanBy, sanPass, eresp>>

svars == <<spc, sreq, sresp>>
dvars == <<dpc, dreq>>
avars == <<apc, areq>>
cvars == <<formsCreated, cresp>>
nvars == <<sanIn, sanOut, sanBy, sanPass>>
pvars == <<nvars, eresp>>

NewForm(fields, limit, status, count) ==
  [status |-> status, fields |-> fields,
   settings |-> [submissionLimit |-> limit], submissionCount |-> count]

NoForm == NewForm(<<>>, 0, "draft", 0)
NoData == [k \in {} |-> Undefined]
NoSReq == [fid |-> 0, form |-> NoForm, data |-> NoData, files |-> <<>>]
NoDReq == [sid |-> 0, fid |-> 0, populated |-> FALSE]
NoAReq == [fid |-> 0, form |-> NoForm]
NoResp == [status |-> 0, message |-> "", list |-> <<>>]

Resp(status, message, list) ==
  [status |-> status, message |-> message, list |-> list]

\* no sanitizer has been called, no export has been asked for
NoSanitizerCall ==
  /\ sanIn = TNum
  /\ sanOut = TNum
  /\ sanBy = ""
  /\ sanPass = 0

NoExport ==
  [fid |-> 0, status |-> 0, message |-> "", header |-> <<>>, rows |-> <<>>,
   download |-> FALSE]

Exists(fid) == fid \in DOMAIN forms

Init ==
  /\ forms = [f \in {} |-> NoForm]
  /\ nextFormId = 1
  /\ subs = [i \in {} |-> 0]
  /\ spc = [p \in Submitters |-> "idle"]
  /\ sreq = [p \in Submitters |-> NoSReq]
  /\ sresp = [p \in Submitters |-> NoResp]
  /\ dpc = [d \in Deleters |-> "idle"]
  /\ dreq = [d \in Deleters |-> NoDReq]
  /\ apc = "idle"
  /\ areq = NoAReq
  /\ formsCreated = 0
  /\ cresp = NoResp
  /\ NoSanitizerCall
  /\ eresp = NoExport

(***************************************************************************)
(* SubmissionController.submitForm                                         *)
(***************************************************************************)
\* the response of lines 28-115 for the form that findOne returned
SubmitChecks(form, data) ==
  IF LimitReached(form)
    THEN Resp(400, "Submission limit reached for this form", <<>>)
  ELSE IF MissingFields(form.fields, data) # <<>>
    THEN Resp(400, "Required fields are missing",
              MissingFields(form.fields, data))
  ELSE IF ValidationThrows(form.fields, data)
    THEN Resp(500, "Failed to submit form", <<>>)
  ELSE IF ValidationErrors(form.fields, data) # <<>>
    THEN Resp(400, "Validation failed", ValidationErrors(form.fields, data))
  ELSE NoResp

\* lines 8-124: the locals formId, data and files (of the body that
\* sanitizeInput has rewritten), the result of Form.findOne({_id, status:
\* 'published'}), and the response of the checks on it
SubmitFormLocals(p, fid, body) ==
  LET data == sanitizeInput(body.data)
      found == Exists(fid) /\ forms[fid].status = "published"
      form == IF found THEN forms[fid] ELSE NoForm
      r == IF found THEN SubmitChecks(form, data)
           ELSE Resp(404, "Form not found or not published", <<>>)
  IN /\ spc[p] = "idle"
     /\ sreq' = [sreq EXCEPT ![p] = [fid |-> fid, form |-> form,
                                     data |-> data, files |-> body.files]]
     /\ sresp' = [sresp EXCEPT ![p] = r]
     /\ spc' = [spc EXCEPT ![p] = IF r = NoResp THEN "save" ELSE "done"]

\* a submitForm that counts the submission before it checks the limit
SubmitFormFindCountFirst(p, fid, body) ==
  /\ SubmitFormLocals(p, fid, body)
  /\ forms' = IF Exists(fid)
              THEN [forms EXCEPT ![fid].submissionCount = @ + 1]
              ELSE forms
  /\ UNCHANGED <<nextFormId, subs, dvars, avars, cvars, pvars>>

\* lines 8-124 write nothing to the database
SubmitFormFind(p, fid, body) ==
  /\ SubmitFormLocals(p, fid, body)
  /\ UNCHANGED <<forms, nextFormId, subs, dvars, avars, cvars, pvars>>

\* line 126: submission.save(), with the schema validation and the
\* pre('save') hook of Submission
SubmissionSave(p) ==
  /\ spc[p] = "save"
  /\ IF FilesValid(sreq[p].files)
     THEN /\ subs' = (p :> [formId |-> sreq[p].fid,
                            data |-> sanitizeObject(sreq[p].data),
                            files |-> sreq[p].files]) @@ subs
          /\ spc' = [spc EXCEPT ![p] = "inc"]
          /\ sresp' = sresp
     ELSE /\ subs' = subs
          /\ spc' = [spc EXCEPT ![p] = "done"]
          /\ sresp' = [sresp EXCEPT
                ![p] = Resp(500, "Failed to submit form", <<>>)]
  /\ UNCHANGED <<forms, nextFormId, sreq, dvars, avars, cvars, pvars>>

\* an increment that is written although the save of the document fails
incrementSubmissionsUnchecked(fid, form) ==
  IF Exists(fid)
  THEN [forms EXCEPT ![fid].submissionCount = form.submissionCount + 1]
  ELSE forms

\* Form.js incrementSubmissions: this.submissionCount += 1; this.save().
\* save() runs the pre('save') hook on the document in memory and writes
\* the modified path of that document, and fails when no stored document
\* has its _id.
incrementSubmissions(fid, form) ==
  IF UniqueFieldIds(form.fields) /\ Exists(fid)
  THEN [forms EXCEPT ![fid].submissionCount = form.submissionCount + 1]
  ELSE forms

SaveFails(fid, form) == ~(UniqueFieldIds(form.fields) /\ Exists(fid))

\* lines 129-142: form.incrementSubmissions() and the 201 response
SubmitIncrement(p) ==
  /\ spc[p] = "inc"
  /\ forms' = incrementSubmissions(sreq[p].fid, sreq[p].form)
  /\ spc' = [spc EXCEPT ![p] = "done"]
  /\ sresp' = [sresp EXCEPT ![p] =
        IF SaveFails(sreq[p].fid, sreq[p].form)
        THEN Resp(500, "Failed to submit form", <<>>)
        ELSE Resp(201, "Form submitted successfully", <<>>)]
  /\ UNCHANGED <<nextFormId, subs, sreq, dvars, avars, cvars, pvars>>

(***************************************************************************)
(* SubmissionController.deleteSubmission                                   *)
(***************************************************************************)
\* lines 274-292: Submission.findById(id).populate('formId', 'userId')
DeleteSubmissionFind(d, sid) ==
  /\ dpc[d] = "idle"
  /\ IF sid \in DOMAIN subs
     THEN /\ dpc' = [dpc EXCEPT ![d] = "delete"]
          /\ dreq' = [dreq EXCEPT ![d] =
                [sid |-> sid, fid |-> subs[sid].formId,
                 populated |-> Exists(subs[sid].formId)]]
     ELSE /\ dpc' = [dpc EXCEPT ![d] = "r404"]
          /\ dreq' = dreq
  /\ UNCHANGED <<forms, nextFormId, subs, svars, avars, cvars, pvars>>

\* line 294: Submission.findByIdAndDelete(id); line 298 then reads
\* submission.formId._id, which throws when populate found no form
DeleteSubmissionRemove(d) ==
  /\ dpc[d] = "delete"
  /\ subs' = [i \in DOMAIN subs \ {dreq[d].sid} |-> subs[i]]
  /\ dpc' = [dpc EXCEPT ![d] = IF dreq[d].populated THEN "dec" ELSE "r500"]
  /\ UNCHANGED <<forms, nextFormId, svars, dreq, avars, cvars, pvars>>

\* lines 297-300: Form.findByIdAndUpdate(formId, {$inc: {submissionCount: -1}})
DecrementCount(fid) ==
  IF Exists(fid)
  THEN [forms EXCEPT ![fid].submissionCount = @ - 1]
  ELSE forms

DeleteSubmissionDecrement(d) ==
  /\ dpc[d] = "dec"
  /\ forms' = DecrementCount(dreq[d].fid)
  /\ dpc' = [dpc EXCEPT ![d] = "r200"]
  /\ UNCHANGED <<nextFormId, subs, svars, dreq, avars, cvars, pvars>>

(***************************************************************************)
(* FormController                                                          *)
(***************************************************************************)
\* routes/forms.js createFormValidation: every field has a non-empty id, a
\* type of the list and a non-empty label
createFormValidation(body) ==
  \A i \in 1..Len(body.fields) :
    /\ body.fields[i].id # ""
    /\ body.fields[i].type \in FIELD_TYPES
    /\ body.fields[i].label # ""

\* req.user.incrementFormsCreated()
incrementFormsCreated(n) == n + 1

\* a createForm whose save runs no pre('save') hook
CreateFormNoHook(body, user) ==
  /\ nextFormId <= MaxForms
  /\ IF ~createFormValidation(body)
     THEN /\ cresp' = Resp(400, "Validation failed", <<>>)
          /\ UNCHANGED <<forms, nextFormId, formsCreated>>
     ELSE /\ forms' = (nextFormId :>
                 NewForm(body.fields, body.submissionLimit, body.status,
                         body.submissionCount)) @@ forms
          /\ nextFormId' = nextFormId + 1
          /\ formsCreated' = IF user THEN incrementFormsCreated(formsCreated)
                                     ELSE formsCreated
          /\ cresp' = Resp(201, "Form created successfully", <<>>)
  /\ UNCHANGED <<subs, svars, dvars, apc, areq, pvars>>

\* createForm lines 119-154: the validation result of the route, new
\* Form({...req.body}) and form.save(), whose pre('save') hook rejects
\* duplicate field ids, then the counter of req.user when there is one
CreateForm(body, user) ==
  /\ nextFormId <= MaxForms
  /\ IF ~createFormValidation(body)
     THEN /\ cresp' = Resp(400, "Validation failed", <<>>)
          /\ UNCHANGED <<forms, nextFormId, formsCreated>>
     ELSE IF ~UniqueFieldIds(body.fields)
     THEN /\ cresp' = Resp(500, "Failed to create form",
                           <<DuplicateIdMessage>>)
          /\ UNCHANGED <<forms, nextFormId, formsCreated>>
     ELSE /\ forms' = (nextFormId :>
                 NewForm(body.fields, body.submissionLimit, body.status,
                         body.submissionCount)) @@ forms
          /\ nextFormId' = nextFormId + 1
          /\ formsCreated' = IF user THEN incrementFormsCreated(formsCreated)
                                     ELSE formsCreated
          /\ cresp' = Resp(201, "Form created successfully", <<>>)
  /\ UNCHANGED <<subs, svars, dvars, apc, areq, pvars>>

\* the document findOneAndUpdate(filter, {...req.body}) leaves: every path
\* of the body is set, no document middleware runs
ApplyUpdate(form, body) ==
  [status |-> IF body.status = "" THEN form.status ELSE body.status,
   fields |-> body.fields,
   settings |-> [submissionLimit |->
                   IF body.submissionLimit = Keep
                   THEN form.settings.submissionLimit
                   ELSE body.submissionLimit],
   submissionCount |-> IF body.submissionCount = Keep
                       THEN form.submissionCount
                       ELSE body.submissionCount]

\* updateForm lines 159-192: the validation result of the route, then
\* findOneAndUpdate
UpdateForm(fid, body) ==
  /\ IF createFormValidation(body) /\ Exists(fid)
     THEN /\ forms' = [forms EXCEPT ![fid] = ApplyUpdate(forms[fid], body)]
     ELSE /\ forms' = forms
  /\ UNCHANGED <<nextFormId, subs, svars, dvars, apc, areq, cvars, pvars>>

\* publishForm lines 247-261: Form.findOne and the check of fields.length
canPublish(form) == Len(form.fields) # 0

PublishFormFind(fid) ==
  /\ apc = "idle"
  /\ IF ~Exists(fid)
     THEN UNCHANGED <<apc, areq>>
     ELSE IF ~canPublish(forms[fid])
     THEN UNCHANGED <<apc, areq>>
     ELSE /\ apc' = "publish"
          /\ areq' = [fid |-> fid, form |-> forms[fid]]
  /\ UNCHANGED <<forms, nextFormId, subs, svars, dvars, cvars, pvars>>

\* Form.js publish / unpublish: this.status = status; this.save()
SetStatus(fid, form, status) ==
  IF SaveFails(fid, form) THEN forms
  ELSE [forms EXCEPT ![fid].status = status]

\* publishForm lines 263-269
PublishFormSave ==
  /\ apc = "publish"
  /\ forms' = SetStatus(areq.fid, areq.form, "published")
  /\ apc' = "idle"
  /\ areq' = NoAReq
  /\ UNCHANGED <<nextFormId, subs, svars, dvars, cvars, pvars>>

\* unpublishForm lines 289-296
UnpublishFormFind(fid) ==
  /\ apc = "idle"
  /\ IF ~Exists(fid)
     THEN UNCHANGED <<apc, areq>>
     ELSE /\ apc' = "unpublish"
          /\ areq' = [fid |-> fid, form |-> forms[fid]]
  /\ UNCHANGED <<forms, nextFormId, subs, svars, dvars, cvars, pvars>>

\* unpublishForm lines 298-304
UnpublishFormSave ==
  /\ apc = "unpublish"
  /\ forms' = SetStatus(areq.fid, areq.form, "draft")
  /\ apc' = "idle"
  /\ areq' = NoAReq
  /\ UNCHANGED <<nextFormId, subs, svars, dvars, cvars, pvars>>

\* duplicateForm lines 324-331
DuplicateFormFind(fid) ==
  /\ apc = "idle"
  /\ nextFormId <= MaxForms
  /\ IF ~Exists(fid)
     THEN UNCHANGED <<apc, areq>>
     ELSE /\ apc' = "duplicate"
          /\ areq' = [fid |-> fid, form |-> forms[fid]]
  /\ UNCHANGED <<forms, nextFormId, subs, svars, dvars, cvars, pvars>>

\* duplicateForm lines 333-351: the copy is a draft with submissionCount 0,
\* saved through the pre('save') hook of Form
DuplicateFormSave ==
  /\ apc = "duplicate"
  /\ nextFormId <= MaxForms
  /\ IF UniqueFieldIds(areq.form.fields)
     THEN /\ forms' = (nextFormId :>
                 NewForm(areq.form.fields,
                         areq.form.settings.submissionLimit, "draft", 0))
                 @@ forms
          /\ nextFormId' = nextFormId + 1
     ELSE /\ UNCHANGED <<forms, nextFormId>>
  /\ apc' = "idle"
  /\ areq' = NoAReq
  /\ UNCHANGED <<subs, svars, dvars, cvars, pvars>>

\* deleteForm lines 206-219: Form.findOneAndDelete
DeleteFormFind(fid) ==
  /\ apc = "idle"
  /\ IF ~Exists(fid)
     THEN UNCHANGED <<apc, areq, forms>>
     ELSE /\ apc' = "deleteMany"
          /\ areq' = [fid |-> fid, form |-> forms[fid]]
          /\ forms' = [f \in DOMAIN forms \ {fid} |-> forms[f]]
  /\ UNCHANGED <<nextFormId, subs, svars, dvars, cvars, pvars>>

\* deleteForm lines 221-227: Submission.deleteMany({formId: id})
DeleteFormSubmissions ==
  /\ apc = "deleteMany"
  /\ subs' = [i \in {j \in DOMAIN subs : subs[j].formId # areq.fid}
                |-> subs[i]]
  /\ apc' = "idle"
  /\ areq' = NoAReq
  /\ UNCHANGED <<forms, nextFormId, svars, dvars, cvars, pvars>>

(***************************************************************************)
(* SubmissionController.exportSubmissions                                  *)
(***************************************************************************)
\* row[key] = value on a row object: the value of a key the row has is
\* overwritten where it is, a new key is added after the others
Put(row, key, value) ==
  IF \E i \in 1..Len(row) : row[i].key = key
  THEN [i \in 1..Len(row) |->
          IF row[i].key = key THEN [key |-> key, value |-> value] ELSE row[i]]
  ELSE Append(row, [key |-> key, value |-> value])

\* submission._id.toString() and submission.submittedAt.toISOString()
IdCell(sid) == [t |-> "id", s |-> <<>>, n |-> sid, a |-> <<>>]
DateCell(sid) == [t |-> "date", s |-> <<>>, n |-> sid, a |-> <<>>]

\* lines 355-366: the value exportSubmissions assigns to row[field.label]
CellValue(field, submission) ==
  LET value == Get(submission.data, field.id)
      found == {i \in 1..Len(submission.files) :
                  submission.files[i].fieldId = field.id}
  IN CASE field.type = "checkbox" /\ value.t = "arr" ->
            Str(Join(value.a, <<";", " ">>))
       [] field.type = "file" ->
            IF found = {} THEN Str(<<>>)
            ELSE Str(<<submission.files[
                   CHOOSE i \in found : \A j \in found : i <= j].originalName>>)
       [] OTHER -> IF Falsy(value) THEN Str(<<>>) ELSE value

\* lines 348-369: the row object of one submission
RECURSIVE PutFields(_, _, _)
PutFields(row, fields, submission) ==
  IF fields = <<>> THEN row
  ELSE PutFields(Put(row, Head(fields).label,
                     CellValue(Head(fields), submission)),
                 Tail(fields), submission)

CsvRow(form, sid) ==
  PutFields(<<[key |-> "Submission ID", value |-> IdCell(sid)],
              [key |-> "Submitted At", value |-> DateCell(sid)]>>,
            form.fields, subs[sid])

\* Submission.find({formId}).sort({submittedAt: -1}): the ids of the
\* submissions of the form, the latest first
RECURSIVE Latest(_)
Latest(ids) ==
  IF ids = {} THEN <<>>
  ELSE LET m == CHOOSE i \in ids : \A j \in ids : j <= i
       IN <<m>> \o Latest(ids \ {m})

SubmissionsOf(fid) == Latest({sid \in DOMAIN subs : subs[sid].formId = fid})

\* parse(csvData) of json2csv: the columns are the keys of the row objects
ParseCsv(csvData) ==
  [header |-> IF csvData = <<>> THEN <<>>
              ELSE [j \in 1..Len(csvData[1]) |-> csvData[1][j].key],
   rows |-> [i \in 1..Len(csvData) |->
               [j \in 1..Len(csvData[i]) |-> csvData[i][j].value]]]

ExportResp(fid, status, message, csv, download) ==
  [fid |-> fid, status |-> status, message |-> message,
   header |-> csv.header, rows |-> csv.rows, download |-> download]

\* lines 348-378: the rows, the CSV text and the headers of the download
ExportCsv(fid) ==
  LET ids == SubmissionsOf(fid)
      csvData == [i \in 1..Len(ids) |-> CsvRow(forms[fid], ids[i])]
  IN ExportResp(fid, 200, "", ParseCsv(csvData), TRUE)

\* an export that does not look at the number of submissions
ExportSubmissionsNoCheck(fid) ==
  /\ eresp' = IF ~Exists(fid)
              THEN ExportResp(fid, 404, "Form not found", ParseCsv(<<>>),
                              FALSE)
              ELSE ExportCsv(fid)
  /\ UNCHANGED <<forms, nextFormId, subs, svars, dvars, avars, cvars, nvars>>

\* exportSubmissions lines 317-388
ExportSubmissions(fid) ==
  /\ eresp' = IF ~Exists(fid)
              THEN ExportResp(fid, 404, "Form not found", ParseCsv(<<>>),
                              FALSE)
              ELSE IF SubmissionsOf(fid) = <<>>
              THEN ExportResp(fid, 400, "No submissions to export",
                              ParseCsv(<<>>), FALSE)
              ELSE ExportCsv(fid)
  /\ UNCHANGED <<forms, nextFormId, subs, svars, dvars, avars, cvars, nvars>>

(***************************************************************************)
(* The specifications.                                                     *)
(***************************************************************************)
SubmitStep ==
  \/ \E p \in Submitters, fid \in FormIds, body \in TrafficPayloads :
       SubmitFormFind(p, fid, body)
  \/ \E p \in Submitters : SubmissionSave(p)
  \/ \E p \in Submitters : SubmitIncrement(p)

DeleteStep ==
  \/ \E d \in Deleters, sid \in Submitters : DeleteSubmissionFind(d, sid)
  \/ \E d \in Deleters : DeleteSubmissionRemove(d)
  \/ \E d \in Deleters : DeleteSubmissionDecrement(d)

FormStep ==
  \/ \E body \in CreateBodies : CreateForm(body, FALSE)
  \/ \E fid \in FormIds, body \in UpdateBodies : UpdateForm(fid, body)
  \/ \E fid \in FormIds : PublishFormFind(fid)
  \/ PublishFormSave
  \/ \E fid \in FormIds : UnpublishFormFind(fid)
  \/ UnpublishFormSave
  \/ \E fid \in FormIds : DuplicateFormFind(fid)
  \/ DuplicateFormSave
  \/ \E fid \in FormIds : DeleteFormFind(fid)
  \/ DeleteFormSubmissions

\* a form that createForm and publishForm have stored, open for submissions
InitLive ==
  /\ \E limit \in 0..MaxLimit :
       forms = (1 :> NewForm(<<fName, fMail>>, limit, "published", 0))
  /\ nextFormId = 2
  /\ subs = [i \in {} |-> 0]
  /\ spc = [p \in Submitters |-> "idle"]
  /\ sreq = [p \in Submitters |-> NoSReq]
  /\ sresp = [p \in Submitters |-> NoResp]
  /\ dpc = [d \in Deleters |-> "idle"]
  /\ dreq = [d \in Deleters |-> NoDReq]
  /\ apc = "idle"
  /\ areq = NoAReq
  /\ formsCreated = 0
  /\ cresp = NoResp
  /\ NoSanitizerCall
  /\ eresp = NoExport

\* submissions to, and deletions of submissions of, a published form
Next == SubmitStep \/ DeleteStep

Spec == InitLive /\ [][Next]_vars

\* the management of forms, from the empty database
SpecForm == Init /\ [][FormStep]_vars

\* a published form without a limit, for every list of fields
InitValidate ==
  /\ \E fl \in ValidatorFieldLists :
       forms = (1 :> NewForm(fl, 0, "published", 0))
  /\ nextFormId = 2
  /\ subs = [i \in {} |-> 0]
  /\ spc = [p \in Submitters |-> "idle"]
  /\ sreq = [p \in Submitters |-> NoSReq]
  /\ sresp = [p \in Submitters |-> NoResp]
  /\ dpc = [d \in Deleters |-> "idle"]
  /\ dreq = [d \in Deleters |-> NoDReq]
  /\ apc = "idle"
  /\ areq = NoAReq
  /\ formsCreated = 0
  /\ cresp = NoResp
  /\ NoSanitizerCall
  /\ eresp = NoExport

\* one submitForm request with any payload to any form
ValidateStep ==
  \/ \E body \in ValidatorPayloads : SubmitFormFind(1, 1, body)
  \/ SubmissionSave(1)
  \/ SubmitIncrement(1)

SpecValidate == InitValidate /\ [][ValidateStep]_vars

\* a call of one of the sanitizers with a value, or once more with the
\* value it has returned
SanitizerCall(by) ==
  LET arg == IF sanPass = 0 THEN sanIn ELSE sanOut
  IN /\ sanPass < MaxPasses
     /\ sanBy \in {"", by}
     /\ Accepts(by, arg)
     /\ sanIn' = arg
     /\ sanOut' = Sanitize(by, arg)
     /\ sanBy' = by
     /\ sanPass' = sanPass + 1
     /\ UNCHANGED <<forms, nextFormId, subs, svars, dvars, avars, cvars,
                    eresp>>

InitSanitize ==
  /\ forms = [f \in {} |-> NoForm]
  /\ nextFormId = 1
  /\ subs = [i \in {} |-> 0]
  /\ spc = [p \in Submitters |-> "idle"]
  /\ sreq = [p \in Submitters |-> NoSReq]
  /\ sresp = [p \in Submitters |-> NoResp]
  /\ dpc = [d \in Deleters |-> "idle"]
  /\ dreq = [d \in Deleters |-> NoDReq]
  /\ apc = "idle"
  /\ areq = NoAReq
  /\ formsCreated = 0
  /\ cresp = NoResp
  /\ sanIn \in SanitizerInputs
  /\ sanOut = sanIn
  /\ sanBy = ""
  /\ sanPass = 0
  /\ eresp = NoExport

SanitizeStep == \E by \in Sanitizers : SanitizerCall(by)

SpecSanitize == InitSanitize /\ [][SanitizeStep]_vars

\* a form with its stored submissions
InitExport ==
  /\ \E fl \in ExportFieldLists, store \in ExportStores :
       /\ forms = (1 :> NewForm(fl, 0, "published",
                                Cardinality(DOMAIN store)))
       /\ subs = store
  /\ nextFormId = 2
  /\ spc = [p \in Submitters |-> "idle"]
  /\ sreq = [p \in Submitters |-> NoSReq]
  /\ sresp = [p \in Submitters |-> NoResp]
  /\ dpc = [d \in Deleters |-> "idle"]
  /\ dreq = [d \in Deleters |-> NoDReq]
  /\ apc = "idle"
  /\ areq = NoAReq
  /\ formsCreated = 0
  /\ cresp = NoResp
  /\ NoSanitizerCall
  /\ eresp = NoExport

ExportStep == \E fid \in FormIds : ExportSubmissions(fid)

SpecExport == InitExport /\ [][ExportStep]_vars

\* the requests that create and update forms, from clients with and
\* without a user, from the empty database
SchemaStep ==
  \/ \E body \in SchemaBodies, user \in BOOLEAN : CreateForm(body, user)
  \/ \E fid \in FormIds, body \in SchemaUpdateBodies : UpdateForm(fid, body)

SpecSchema == Init /\ [][SchemaStep]_vars

\* the submissions of one client to a published form while that form is
\* updated and deleted
MixedStep ==
  \/ \E fid \in FormIds, body \in Payloads : SubmitFormFind(1, fid, body)
  \/ SubmissionSave(1)
  \/ SubmitIncrement(1)
  \/ \E body \in UpdateBodies : UpdateForm(1, body)
  \/ DeleteFormFind(1)
  \/ DeleteFormSubmissions

SpecMixed == InitLive /\ [][MixedStep]_vars

(***************************************************************************)
(* The claims.                                                             *)
(***************************************************************************)
LimitMessage == "Submission limit reached for this form"

NoDeletion == \A d \in Deleters : dpc[d] = "idle"

Accepted == {p \in Submitters : sresp[p].status = 201}

\* C1: for a form with submissionLimit N > 0 and no deletions, at most N
\* submitForm requests are accepted, and neither the number of stored
\* submissions nor submissionCount ever exceeds N
C1_LimitNeverExceeded ==
  \A f \in DOMAIN forms :
    (NoDeletion /\ forms[f].settings.submissionLimit > 0) =>
      /\ Cardinality({i \in DOMAIN subs : subs[i].formId = f})
           <= forms[f].settings.submissionLimit
      /\ Cardinality(Accepted) <= forms[f].settings.submissionLimit
      /\ forms[f].submissionCount <= forms[f].settings.submissionLimit

\* C2: the check of the limit and the increment are one step that precedes
\* the storing of the Submission: no Submission of a request is stored while
\* the increment of that request is still to come, and no other request
\* reads or writes submissionCount between a request's check and increment
C2_ReserveBeforePersist ==
  /\ [](\A p \in Submitters : ~(spc[p] = "inc" /\ p \in DOMAIN subs))
  /\ [][\A p \in Submitters :
          spc[p] \in {"save", "inc"} =>
            \A q \in Submitters \ {p} :
              ~(spc[q] = "idle" /\ spc'[q] # "idle") /\
              ~(spc[q] = "inc" /\ spc'[q] # "inc")]_vars

\* the step answers a submitForm request with 201
AcceptStep ==
  \E p \in Submitters : sresp[p].status # 201 /\ sresp'[p].status = 201

\* the step is the decrement of a deleteSubmission request
DeletionStep == \E d \in Deleters : dpc[d] = "dec" /\ dpc'[d] = "r200"

\* C3: the submissionCount of a stored form changes only by +1 in the step
\* that accepts a submission and by -1 in the step of a deletion
C3_CountChangesByOne ==
  [][\A f \in DOMAIN forms \cap DOMAIN forms' :
       \/ forms'[f].submissionCount = forms[f].submissionCount
       \/ /\ forms'[f].submissionCount = forms[f].submissionCount + 1
          /\ AcceptStep
       \/ /\ forms'[f].submissionCount = forms[f].submissionCount - 1
          /\ DeletionStep]_vars

\* C4: with no deleteSubmission step, the submissionCount of a form that
\* stays published never decreases
C4_CountMonotone ==
  [][\A f \in DOMAIN forms \cap DOMAIN forms' :
       (NoDeletion /\ NoDeletion'
          /\ forms[f].status = "published" /\ forms'[f].status = "published")
       => forms'[f].submissionCount >= forms[f].submissionCount]_vars

\* C5: the submissionCount of every form is non-negative in every state
C5_CountNonNegative ==
  \A f \in DOMAIN forms : forms[f].submissionCount >= 0

\* C6: a submitForm request that ends in a failure has not changed the
\* stored forms: every step of a request other than the step that answers
\* 201 leaves every submissionCount as it was
C6_FailedSubmitKeepsCount ==
  [][\A p \in Submitters :
       (spc'[p] # spc[p] /\ sresp'[p].status # 201) => forms' = forms]_vars

\* C6 witness: the request passed the checks, the save of its Submission
\* failed and it was answered 500
C6_Witness ==
  \E p \in Submitters :
    /\ spc[p] = "done" /\ sresp[p].status = 500
    /\ sreq[p].form.status = "published"
    /\ p \notin DOMAIN subs

\* C7: the step that rejects a request for the limit changes neither the
\* stored forms nor the stored submissions
C7_LimitRejectNoMutation ==
  [][\A p \in Submitters :
       (sresp'[p] # sresp[p] /\ sresp'[p].message = LimitMessage)
         => forms' = forms /\ subs' = subs]_vars

\* C7 witness: a request was rejected for the limit
C7_Witness ==
  \E p \in Submitters :
    /\ sresp[p].message = LimitMessage
    /\ sreq[p].form.settings.submissionLimit > 0
    /\ sreq[p].form.submissionCount >= sreq[p].form.settings.submissionLimit

\* the payload passes the checks of required fields, types and rules
ValidData(form, data) ==
  /\ MissingFields(form.fields, data) = <<>>
  /\ ~ValidationThrows(form.fields, data)
  /\ ValidationErrors(form.fields, data) = <<>>

\* C8: a request that found a published form with submissionLimit 0 is not
\* rejected for the limit, whatever the submissionCount, and with a valid
\* payload it goes on to store its Submission
C8_NoLimitNeverRejects ==
  \A p \in Submitters :
    (spc[p] # "idle" /\ sreq[p].form.status = "published"
       /\ sreq[p].form.settings.submissionLimit = 0)
    => /\ sresp[p].message # LimitMessage
       /\ ValidData(sreq[p].form, sreq[p].data) =>
            (spc[p] \in {"save", "inc"} \/ sresp[p].status \in {201, 500})

\* C8 witness: a submission to a form without limit that already counted
\* submissions was accepted
C8_Witness ==
  \E p \in Submitters :
    /\ sresp[p].status = 201
    /\ sreq[p].form.settings.submissionLimit = 0
    /\ sreq[p].form.submissionCount >= 1

\* C9: every published form has at least one field
C9_PublishedHasFields ==
  \A f \in DOMAIN forms :
    forms[f].status = "published" => Len(forms[f].fields) >= 1

\* C10: the field ids of every stored form are pairwise distinct
C10_FieldIdsUnique ==
  \A f \in DOMAIN forms :
    \A i, j \in 1..Len(forms[f].fields) :
      i # j => forms[f].fields[i].id # forms[f].fields[j].id

\* the fields of a form whose options the schema is to judge
NeedsOptions(field) == field.type \in {"select", "radio", "checkbox"}

\* C11: a createForm request whose fields share an id fails with the
\* duplicate-field-id error and persists nothing: the stored forms are the
\* same after the request, and the formsCreated counter of the user is not
\* incremented.
C11_DuplicateIdsPersistNothing ==
  [][\A body \in SchemaBodies, user \in BOOLEAN :
       (CreateForm(body, user) /\ createFormValidation(body)
          /\ ~UniqueFieldIds(body.fields))
       => /\ forms' = forms
          /\ formsCreated' = formsCreated
          /\ cresp'.status = 500
          /\ cresp'.list = <<DuplicateIdMessage>>]_vars

\* a form is stored, the user has created a form, and the last createForm
\* request failed with the duplicate-field-id error
C11_Witness ==
  /\ DOMAIN forms # {}
  /\ formsCreated > 0
  /\ cresp = Resp(500, "Failed to create form", <<DuplicateIdMessage>>)

\* C12: no stored form has a select, radio or checkbox field with an empty
\* list of options: creation and update reject such a form.
C12_ChoiceFieldsHaveOptions ==
  \A fid \in DOMAIN forms :
    \A i \in 1..Len(forms[fid].fields) :
      NeedsOptions(forms[fid].fields[i])
        => forms[fid].fields[i].options # <<>>

\* C13: every field id of every stored form is a letter followed by
\* letters, digits and underscores: creation and update reject any other
\* id.
C13_FieldIdsAreIdentifiers ==
  \A fid \in DOMAIN forms :
    \A i \in 1..Len(forms[fid].fields) :
      ValidIdentifier(forms[fid].fields[i].id)

\* the required fields of a form, in the order of their declaration
RequiredFields(form) == SelectSeq(form.fields, LAMBDA f : f.required)

\* the notion of a value that is not there: absent, or the empty string
Absent(v) == v = Undefined \/ v = Str(<<>>)

\* C14: for a published form and a payload in which every required field is
\* absent or the empty string, the request fails with exactly one entry for
\* each required field, in the order of declaration (all of them, not only
\* the first), and no Submission is stored. sreq[1].data is req.body.data
\* as submitForm reads it.
C14_AllRequiredReported ==
  LET required == RequiredFields(sreq[1].form)
  IN (/\ spc[1] # "idle"
      /\ required # <<>>
      /\ \A i \in 1..Len(required) :
           Absent(Get(sreq[1].data, required[i].id)))
     => /\ spc[1] = "done"
        /\ sresp[1].status = 400
        /\ sresp[1].message = "Required fields are missing"
        /\ sresp[1].list = [i \in 1..Len(required) |-> required[i].label]
        /\ DOMAIN subs = {}

\* a request to a form with two required fields has ended with both of
\* them reported, in the order of the form
C14_Witness ==
  /\ spc[1] = "done"
  /\ forms[1].fields = <<fReqMail, fName>>
  /\ sresp[1].message = "Required fields are missing"
  /\ sresp[1].list = <<"B", "A">>
  /\ DOMAIN subs = {}

\* the values of the fields of the form a request has read
ValueOf(f) == Get(sreq[1].data, f.id)

\* C15: a value is there when it is neither absent nor the empty string; a
\* required field whose value is the number 0 is not reported missing.
C15_ZeroIsPresent ==
  (spc[1] # "idle" /\ sresp[1].message = "Required fields are missing")
  => \A i \in 1..Len(sreq[1].form.fields) :
       LET f == sreq[1].form.fields[i]
       IN (f.required /\ ValueOf(f) = Num(0))
          => \A j \in 1..Len(sresp[1].list) : sresp[1].list[j] # f.label

\* a field whose value fails the check of its type or one of its rules
FieldFails(f) ==
  /\ ~Skipped(ValueOf(f))
  /\ TypeErrors(f, ValueOf(f)) \o RuleErrors(f, ValueOf(f)) # <<>>

\* the first element of every run of equal elements
RECURSIVE Runs(_)
Runs(seq) ==
  IF Len(seq) <= 1 THEN seq
  ELSE IF seq[1] = seq[2] THEN Runs(Tail(seq))
  ELSE <<seq[1]>> \o Runs(Tail(seq))

\* C16: when no required field is missing, every field that fails the
\* check of its type or a rule (minLength, maxLength, pattern) has its
\* error in the one failure that is returned: the failure names each of
\* the failing fields, in the order of declaration, and validation does
\* not stop at the first of them.
C16_EveryFailureListed ==
  LET failing == SelectSeq(sreq[1].form.fields, FieldFails)
  IN (/\ spc[1] # "idle"
      /\ MissingFields(sreq[1].form.fields, sreq[1].data) = <<>>
      /\ failing # <<>>)
     => /\ spc[1] = "done"
        /\ sresp[1].status = 400
        /\ sresp[1].message = "Validation failed"
        /\ Runs([j \in 1..Len(sresp[1].list) |-> sresp[1].list[j].label])
             = [i \in 1..Len(failing) |-> failing[i].label]

\* C17: a select or radio value that is there is accepted only when it is
\* one of the options, and a checkbox value only when it is a sequence of
\* strings that are all options; with any other value nothing is stored.
C17_OnlyOptionsAccepted ==
  1 \in DOMAIN subs
  => \A i \in 1..Len(sreq[1].form.fields) :
       LET f == sreq[1].form.fields[i]
           v == ValueOf(f)
       IN ~Absent(v)
          => /\ f.type \in {"select", "radio"} => Includes(f.options, v)
             /\ f.type = "checkbox"
                  => /\ v.t = "arr"
                     /\ \A k \in 1..Len(v.a) :
                          Includes(f.options, Str(v.a[k]))

\* C18: the keys of the data of every stored Submission are ids of fields
\* of the form it was validated against: keys of no field are dropped.
C18_StoredKeysAreFieldIds ==
  \A sid \in DOMAIN subs :
    DOMAIN subs[sid].data \subseteq
      {sreq[sid].form.fields[i].id : i \in 1..Len(sreq[sid].form.fields)}

\* C19: a payload whose value for an email field without rules is a string
\* that is not of the shape local@domain.tld fails with exactly one error
\* for that field, the invalid-email error, and the error refers to the
\* field by its id.
C19_OneEmailErrorById ==
  \A i \in 1..Len(sreq[1].form.fields) :
    LET f == sreq[1].form.fields[i]
        v == ValueOf(f)
    IN (/\ spc[1] # "idle"
        /\ f.type = "email"
        /\ v.t = "str" /\ v.s # <<>> /\ ~emailRegex(v.s))
       => /\ sresp[1].message = "Validation failed"
          /\ Cardinality({j \in 1..Len(sresp[1].list) :
                            sresp[1].list[j].label = f.id}) = 1
          /\ \A j \in 1..Len(sresp[1].list) :
               sresp[1].list[j].label = f.id
                 => sresp[1].list[j].kind = "email"

\* C20: when the pattern of a field is not a regular expression and the
\* value of the field is a string, the request ends with an error of a
\* kind of its own, neither the validation error of a submitter nor the
\* response of an internal fault; nothing is stored and submissionCount
\* stays as it is.
C20_InvalidPatternOwnKind ==
  (/\ spc[1] # "idle"
   /\ \A i \in 1..Len(sreq[1].form.fields) :
        sreq[1].form.fields[i].required
          => ~Absent(ValueOf(sreq[1].form.fields[i]))
   /\ \E i \in 1..Len(sreq[1].form.fields) :
        LET f == sreq[1].form.fields[i]
        IN /\ f.validation.pattern # ""
           /\ ~RegExpValid(f.validation.pattern)
           /\ ValueOf(f).t = "str" /\ ValueOf(f).s # <<>>)
  => /\ spc[1] = "done"
     /\ sresp[1].message \notin {"Validation failed", "Failed to submit form"}
     /\ DOMAIN subs = {}
     /\ forms[1].submissionCount = 0

\* the strings at the leaves of a value
RECURSIVE StringLeaves(_)
StringLeaves(x) ==
  IF x.t = "str" THEN {x.s}
  ELSE UNION {StringLeaves(x.kids[i]) : i \in 1..Len(x.kids)}

\* a string with a <script>...</script> block or with javascript:
HasMarkup(s) ==
  \/ \E i, j \in 1..Len(s) : i < j /\ s[i] = "<script>" /\ s[j] = "</script>"
  \/ \E i \in 1..Len(s) : s[i] = "javascript:"
  \/ \E i \in 1..(Len(s) - 1) : s[i] = "java" /\ s[i + 1] = "script:"

\* a string from which the removals leave no markup put together from the
\* pieces around what they remove
Settled(s) ==
  ~HasMarkup(RemoveJs(RemoveScript(s))) /\ ~HasMarkup(sanitizeString(s))

\* the number of arrays and objects around the deepest leaf of a value
RECURSIVE Depth(_)
Depth(x) ==
  IF x.kids = <<>> THEN 0
  ELSE LET ds == {Depth(x.kids[i]) : i \in 1..Len(x.kids)}
       IN 1 + CHOOSE d \in ds : \A e \in ds : e <= d

\* C21: sanitization is idempotent: a sanitizer called with the value it
\* has returned returns that value; a second pass removes nothing more.
C21_SanitizeIdempotent == sanPass >= 2 => sanOut = sanIn

\* C22: after a call of the sanitizer of the request body or of the one of
\* Submission, no string leaf of the result, at any depth (a value, an item
\* of an array, a value inside a nested object or array), has a script
\* block or a javascript: that the argument had.
C22_EveryLeafSanitized ==
  (/\ sanPass = 1
   /\ sanBy \in {"sanitizeInput", "sanitizeObject"}
   /\ \A s \in StringLeaves(sanIn) : Settled(s))
  => \A s \in StringLeaves(sanOut) : ~HasMarkup(s)

\* y is x but for the script blocks and javascript: of its string leaves
RECURSIVE Framed(_, _)
Framed(x, y) ==
  /\ y.t = x.t
  /\ y.keys = x.keys
  /\ Len(y.kids) = Len(x.kids)
  /\ x.t = "num" => y = x
  /\ (x.t = "str" /\ ~HasMarkup(x.s)) => y = x
  /\ \A i \in 1..Len(x.kids) : Framed(x.kids[i], y.kids[i])

\* C23: sanitization changes nothing but script blocks and javascript:: a
\* string leaf with neither is returned as it is (nothing is trimmed,
\* nothing else removed), other leaves are returned as they are, the keys
\* and the lengths of the arrays are kept.
C23_SanitizeFrame ==
  (sanPass = 1 /\ sanBy \in {"sanitizeInput", "sanitizeObject"})
  => Framed(sanIn, sanOut)

\* C24: a value nested deeper than 32 is not sanitized: the call fails
\* with PayloadTooDeep instead of going deeper.
C24_DepthBounded ==
  (sanPass >= 1 /\ Depth(sanIn) > 32) => sanOut.t = "PayloadTooDeep"

\* the form and the rows of a finished export
Exported == eresp.status = 200

\* C25: the CSV export of a form with n fields has 2 + n columns:
\* Submission ID, Submitted At, then a column for each field in the order
\* of the form, headed by the label of the field; fields with one label,
\* or with the label of a fixed column, have a column and a value each.
C25_ColumnPerField ==
  Exported
  => LET fields == forms[eresp.fid].fields
         ids == SubmissionsOf(eresp.fid)
     IN /\ eresp.header = <<"Submission ID", "Submitted At">>
                            \o [j \in 1..Len(fields) |-> fields[j].label]
        /\ \A i \in 1..Len(ids) :
             /\ Len(eresp.rows[i]) = 2 + Len(fields)
             /\ eresp.rows[i][1] = IdCell(ids[i])
             /\ \A j \in 1..Len(fields) :
                  eresp.rows[i][2 + j] = CellValue(fields[j], subs[ids[i]])

\* the cell of a field: the values of a checkbox joined with "; ", the
\* originalName of the file of a file field or the empty string, for any
\* other kind the stored value, and the empty string when there is none
ExpectedCell(field, submission) ==
  LET value == Get(submission.data, field.id)
      found == {i \in 1..Len(submission.files) :
                  submission.files[i].fieldId = field.id}
  IN IF field.type = "checkbox" /\ value.t = "arr"
     THEN Str(Join(value.a, <<";", " ">>))
     ELSE IF field.type = "file"
     THEN IF found = {} THEN Str(<<>>)
          ELSE Str(<<submission.files[CHOOSE i \in found : TRUE].originalName>>)
     ELSE IF value = Undefined THEN Str(<<>>)
     ELSE value

\* the column of the label of a field of an exported form
ColumnOf(label) == CHOOSE c \in 1..Len(eresp.header) : eresp.header[c] = label

\* C26: for every submission and every field, the exported cell is the
\* values of a checkbox joined with "; " in stored order, the originalName
\* of the file whose fieldId is the id of a file field or the empty
\* string, and for every other kind the stored value; it is empty only
\* when the field is absent from the data (a stored 0 is exported as 0).
C26_CellValues ==
  Exported
  => LET fields == forms[eresp.fid].fields
         ids == SubmissionsOf(eresp.fid)
     IN (\A j, k \in 1..Len(fields) :
           /\ fields[j].label = fields[k].label => j = k
           /\ fields[j].label # "Submission ID")
        => \A i \in 1..Len(ids), j \in 1..Len(fields) :
             eresp.rows[i][ColumnOf(fields[j].label)]
               = ExpectedCell(fields[j], subs[ids[i]])

\* C27: the export of a form without submissions fails with 'No
\* submissions to export' before a row, a CSV text or a header of the
\* download is made: it returns no empty and no header-only file.
C27_NothingToExport ==
  [][\A fid \in FormIds :
       (ExportSubmissions(fid) /\ Exists(fid) /\ SubmissionsOf(fid) = <<>>)
       => eresp' = [fid |-> fid, status |-> 400,
                    message |-> "No submissions to export",
                    header |-> <<>>, rows |-> <<>>, download |-> FALSE]]_vars

\* the export of a form that has fields and no submission was refused
C27_Witness ==
  /\ eresp.message = "No submissions to export"
  /\ Exists(eresp.fid)
  /\ forms[eresp.fid].fields # <<>>
  /\ SubmissionsOf(eresp.fid) = <<>>

\* no request is under way
Quiet ==
  /\ \A p \in Submitters : spc[p] \in {"idle", "done"}
  /\ \A d \in Deleters : dpc[d] \notin {"delete", "dec"}
  /\ apc = "idle"

\* the stored submissions of a form
StoredFor(fid) == {sid \in DOMAIN subs : subs[sid].formId = fid}

\* C28: when all requests have completed, after any interleaving of
\* submitForm and deleteSubmission requests on a form, the submissionCount
\* of the form is the number of stored submissions of the form.
C28_CountIsNumberStored ==
  Quiet => \A fid \in DOMAIN forms :
             forms[fid].submissionCount = Cardinality(StoredFor(fid))

\* C29: when deleteForm has completed and no request is under way, every
\* stored submission is one of a stored form: none refers to the deleted
\* form, also when a submitForm request ran beside the deletion.
C29_NoSubmissionOfDeletedForm ==
  Quiet => \A sid \in DOMAIN subs : Exists(subs[sid].formId)

\* C30: a Submission of a request is stored exactly when the request is
\* answered 201: a request answered with a failure leaves no Submission
\* (a Submission answered 201 stays until its form is deleted).
C30_StoredIffSuccess ==
  spc[1] = "done"
  => /\ sresp[1].status # 201 => 1 \notin DOMAIN subs
     /\ sresp[1].status = 201 => (1 \in DOMAIN subs \/ ~Exists(sreq[1].fid))

====
